---- MODULE Spec2Model ----
(***************************************************************************)
(* Model of the embedded OAuth 2.0 authorization server of morphik-mcp     *)
(* (src/src/index.ts): the client registry, the pending-authorization      *)
(* store, the token store, the token verifier, and the POST /mcp request   *)
(* pipeline that consumes verified principals; and of two start-up and     *)
(* tool helpers of the same file: the parsing of the --uri argument and    *)
(* the validation of file paths against the allowed directories.           *)
(*                                                                         *)
(* Node.js runs every callback to completion: an async method without an   *)
(* await in its body (registerClient, getClient, authorize,                 *)
(* exchangeAuthorizationCode, exchangeRefreshToken, verifyAccessToken)     *)
(* executes as one atomic step, so each is one action.                     *)
(* The POST /mcp handler awaits twice (server.connect and                  *)
(* transport.handleRequest); each await is a point where other requests'   *)
(* callbacks may run, so the handler is a sequence of actions.             *)
(*                                                                         *)
(* Optional values (T | undefined) are sequences of length at most one:    *)
(* <<>> is undefined and <<x>> is the value x.                             *)
(***************************************************************************)
EXTENDS Integers, Sequences, FiniteSets, TLC

VARIABLES
    clients,        \* MorphikOAuthClientsStore.clients : client_id -> record
    codes,          \* MorphikOAuthProvider.codes : code -> {client, params, codeChallenge}
    tokens,         \* MorphikOAuthProvider.tokens : access token -> token info
    now,            \* Date.now(), in milliseconds
    ret,            \* the last operation: its name, arguments and outcome
    ops,            \* number of state-changing operations taken (bounds the run)
    minted,         \* history: code -> [client_id, at, params] recorded when authorize minted it
    grants,         \* history: access token -> the code it was issued from
    assigned,       \* history: client_id -> the record registerClient returned with it
    returned,       \* history: refresh token -> [client_id, scopes] of the exchange that returned it
    requests,       \* the POST /mcp requests received, in order of arrival
    currentAuthInfo, \* index.ts:640  let currentAuthInfo: AuthInfo | undefined
    server          \* index.ts:643  const server: the request whose transport the one
                    \* McpServer instance is connected to, undefined when closed

\* the variables of the /mcp request pipeline
mcpVars == <<requests, currentAuthInfo, server>>

vars == <<clients, codes, tokens, now, ret, ops, minted, grants, assigned, returned,
          requests, currentAuthInfo, server>>

----------------------------------------------------------------------------
(* Bounds of the model *)

\* state-changing operations (registrations, authorizations, redemptions,
\* clock advances, arrivals of /mcp requests) in one run
MaxOps == 5

----------------------------------------------------------------------------
(* Program constants *)

\* index.ts:582  const expiresAt = Date.now() + (3600 * 1000)
AccessTtlMs == 3600 * 1000

\* index.ts:599  expires_in: 3600
ExpiresIn == 3600

\* index.ts:30, 81  MORPHIK_API_BASE (no --uri argument given)
MORPHIK_API_BASE == "http://localhost:8000"

\* index.ts:82  AUTH_TOKEN (no --uri argument given)
AUTH_TOKEN == ""

----------------------------------------------------------------------------
(* Optional values and Map operations *)

Undefined == <<>>

Some(x) == <<x>>

IsDefined(o) == o # <<>>

\* Map.prototype.set(k, v)
MapSet(m, k, v) == [x \in DOMAIN m \cup {k} |-> IF x = k THEN v ELSE m[x]]

\* Map.prototype.delete(k)
MapDelete(m, k) == [x \in DOMAIN m \ {k} |-> m[x]]

\* Map.prototype.get(k): <<>> when the key is absent
MapGet(m, k) == IF k \in DOMAIN m THEN <<m[k]>> ELSE <<>>

EmptyMap == [x \in {} |-> 0]

----------------------------------------------------------------------------
(* crypto.randomUUID() returns a value never returned before.  The model    *)
(* names each value by the call site that drew it and the number of values  *)
(* that site drew earlier: "client-1", "code-2", "access-1".                *)

\* Variant: a generator that returns the same value at every call of a site.
RandomUUIDRepeating(site, drawn) == site \o "-1"

RandomUUID(site, drawn) == site \o "-" \o ToString(drawn + 1)

\* A value randomUUID() never returns in the run.
NeverIssued == "none"

----------------------------------------------------------------------------
(* Inputs *)

\* Date.now() when the server starts, in milliseconds.
StartTime == 500

\* Code verifiers a client may present, and BASE64URL(SHA256(v)) of each.
Verifiers == {"verifier1", "verifier2"}

S256(v) ==
    CASE v = "verifier1" -> "UNRBI5WaniJnNgaplgaghteBI6YWdT5f_cIYujgSYV4"
      [] v = "verifier2" -> "EFqzDSWywLbGHCLTlEox0Ls6VslOu-wS3vF61Y_4Bkw"

\* Client metadata posted to /register; it may carry a client_id of its own.
ClientMetadata ==
    { [client_name |-> "app", client_id |-> NeverIssued] }

\* The params of an authorization request carry redirectUri, state, scopes and
\* codeChallenge, the members authorize reads (index.ts:528-541), and
\* codeChallengeMethod, the code_challenge_method the request was made with,
\* which authorize never reads.

\* An authorization request without PKCE challenge, state or scopes.
PlainParams ==
    [redirectUri |-> "https://app/cb", state |-> Undefined,
     scopes |-> Undefined, codeChallenge |-> Undefined,
     codeChallengeMethod |-> Undefined]

\* An authorization request with state, scopes and an S256 challenge.
S256Params ==
    [redirectUri |-> "https://app/cb", state |-> Some("xyz"),
     scopes |-> Some(<<"morphik:read", "morphik:write">>),
     codeChallenge |-> Some(S256("verifier1")),
     codeChallengeMethod |-> Some("S256")]

\* An authorization request with a plain challenge: the challenge is the verifier.
PlainChallengeParams ==
    [redirectUri |-> "https://app/cb", state |-> Some("xyz"),
     scopes |-> Undefined,
     codeChallenge |-> Some("verifier1"),
     codeChallengeMethod |-> Some("plain")]

\* AuthorizationParams passed to authorize (index.ts:523).
AuthorizationParams == {S256Params, PlainParams}

\* The advances of the wall clock that the model takes, in milliseconds.
TickSteps == {AccessTtlMs, AccessTtlMs + 1}

----------------------------------------------------------------------------
(* Pure helpers *)

\* Array.prototype.join(' ')
RECURSIVE Join(_)
Join(s) ==
    IF Len(s) = 0 THEN ""
    ELSE IF Len(s) = 1 THEN s[1]
    ELSE s[1] \o " " \o Join(Tail(s))

\* JavaScript  o || d  for an optional string o: undefined and '' are falsy
OrElse(o, d) == IF IsDefined(o) /\ o[1] # "" THEN o[1] ELSE d

\* JavaScript  o || d  for an optional array o: only undefined is falsy
ArrayOrElse(o, d) == IF IsDefined(o) THEN o[1] ELSE d

\* Math.floor(x / 1000)
FloorSeconds(ms) == ms \div 1000

----------------------------------------------------------------------------
(* State after construction (index.ts:496, 516-521, 636) *)

NoCall == [op |-> "init"]

Init ==
    /\ clients = EmptyMap
    /\ codes = EmptyMap
    /\ tokens = EmptyMap
    /\ now = StartTime
    /\ ret = NoCall
    /\ ops = 0
    /\ minted = EmptyMap
    /\ grants = EmptyMap
    /\ assigned = EmptyMap
    /\ returned = EmptyMap
    /\ requests = <<>>
    /\ currentAuthInfo = Undefined
    /\ server = Undefined

----------------------------------------------------------------------------
(* Client registry (index.ts:495-512) *)

\* getClient: this.clients.get(clientId)
GetClient(clientId) == MapGet(clients, clientId)

\* Variant: a client_id given in the metadata is kept.
RegisteredClientKeepingId(clientMetadata, clientId) ==
    [client_name |-> clientMetadata.client_name,
     client_id |-> clientMetadata.client_id,
     client_id_issued_at |-> FloorSeconds(now)]

\* registerClient: { ...clientMetadata, client_id, client_id_issued_at }
RegisteredClient(clientMetadata, clientId) ==
    [client_name |-> clientMetadata.client_name,
     client_id |-> clientId,
     client_id_issued_at |-> FloorSeconds(now)]

\* Variant: the registry keeps only the client registered last.
ClientsAfterRegisterReplacing(clientId, client) == MapSet(EmptyMap, clientId, client)

\* index.ts:509  this.clients.set(clientId, client)
ClientsAfterRegister(clientId, client) == MapSet(clients, clientId, client)

RegisterClient(clientMetadata) ==
    /\ ops < MaxOps
    /\ ops' = ops + 1
    /\ LET clientId == RandomUUID("client", Cardinality(DOMAIN assigned))
           client == RegisteredClient(clientMetadata, clientId)
       IN /\ clients' = ClientsAfterRegister(clientId, client)
          /\ assigned' = MapSet(assigned, clientId, client)
          /\ ret' = [op |-> "registerClient", metadata |-> clientMetadata,
                     err |-> "", val |-> client]
    /\ UNCHANGED <<codes, tokens, now, minted, grants, returned, mcpVars>>

\* A call of getClient (index.ts:498-500); it changes nothing.
GetClientCall(clientId) ==
    /\ ret' = [op |-> "getClient", clientId |-> clientId, val |-> GetClient(clientId)]
    /\ UNCHANGED <<clients, codes, tokens, now, ops, minted, grants, assigned, returned, mcpVars>>

\* The clients a caller can present: the SDK resolves client_id through getClient.
RegisteredClients == {clients[k] : k \in DOMAIN clients}

----------------------------------------------------------------------------
(* authorize (index.ts:523-547) *)

\* The record stored under the code (index.ts:528-532)
PendingAuthorization(client, params) ==
    [client |-> client, params |-> params, codeChallenge |-> params.codeChallenge]

\* The search parameters of the redirect URL (index.ts:536-543)
AuthorizeRedirect(client, params, code) ==
    [client_id |-> client.client_id,
     redirect_uri |-> params.redirectUri,
     state |-> OrElse(params.state, ""),
     scope |-> IF IsDefined(params.scopes) THEN OrElse(Some(Join(params.scopes[1])), "") ELSE "",
     code_challenge |-> OrElse(params.codeChallenge, ""),
     code_challenge_method |-> "S256",
     mcp_code |-> code]

\* Variant: authorize keeps a single pending authorization, dropping the others.
CodesAfterAuthorizeReplacing(client, params, code) ==
    MapSet(EmptyMap, code, PendingAuthorization(client, params))

\* this.codes after authorize
CodesAfterAuthorize(client, params, code) ==
    MapSet(codes, code, PendingAuthorization(client, params))

Authorize(client, params) ==
    /\ ops < MaxOps
    /\ ops' = ops + 1
    /\ LET code == RandomUUID("code", Cardinality(DOMAIN minted))
       IN /\ codes' = CodesAfterAuthorize(client, params, code)
          /\ ret' = [op |-> "authorize", client |-> client.client_id, params |-> params,
                     err |-> "", val |-> AuthorizeRedirect(client, params, code)]
          /\ minted' = MapSet(minted, code,
                              [client_id |-> client.client_id, at |-> now, params |-> params])
    /\ UNCHANGED <<clients, tokens, now, grants, assigned, returned, mcpVars>>

----------------------------------------------------------------------------
(* exchangeAuthorizationCode (index.ts:557-603) *)

\* Variant: the lookup alone decides, the client comparison is left out.
CodeRejectedUnbound(client, authorizationCode) ==
    ~IsDefined(MapGet(codes, authorizationCode))

\* index.ts:563  !codeData || codeData.client.client_id !== client.client_id
CodeRejected(client, authorizationCode) ==
    LET codeData == MapGet(codes, authorizationCode)
    IN \/ ~IsDefined(codeData)
       \/ codeData[1].client.client_id # client.client_id

\* Variant: the message tells why the code was refused.
CodeErrorRevealing(client, authorizationCode) ==
    IF IsDefined(MapGet(codes, authorizationCode))
    THEN "Authorization code was issued to another client"
    ELSE "Unknown authorization code"

\* index.ts:552, 564  throw new Error('Invalid authorization code')
CodeError(client, authorizationCode) == "Invalid authorization code"

\* Variant: a refused attempt burns the code it presented.
CodesAfterRejectionBurned(authorizationCode) == MapDelete(codes, authorizationCode)

\* index.ts:563-565  the throw precedes every write: this.codes is as before
CodesAfterRejection(authorizationCode) == codes

\* index.ts:568-571  the PKCE branch has an empty body: it rejects nothing
PkceRejected(client, authorizationCode, codeVerifier) == FALSE

\* Variant: the stored record expires one minute after the redemption.
TokenInfoShortLived(client, codeData) ==
    [clientId |-> client.client_id,
     scopes |-> ArrayOrElse(codeData.params.scopes, <<>>),
     userId |-> "demo-user",
     morphikUri |-> MORPHIK_API_BASE,
     expiresAt |-> now + 60 * 1000]

\* index.ts:585-591  the record stored under the access token
TokenInfo(client, codeData) ==
    [clientId |-> client.client_id,
     scopes |-> ArrayOrElse(codeData.params.scopes, <<>>),
     userId |-> "demo-user",
     morphikUri |-> MORPHIK_API_BASE,
     expiresAt |-> now + AccessTtlMs]

\* index.ts:596-602  the OAuthTokens returned
OAuthTokens(accessToken, refreshToken, codeData) ==
    [access_token |-> accessToken,
     token_type |-> "Bearer",
     expires_in |-> ExpiresIn,
     refresh_token |-> refreshToken,
     scope |-> IF IsDefined(codeData.params.scopes)
               THEN Some(Join(codeData.params.scopes[1])) ELSE Undefined]

\* Variant: the code is left in the store after redemption.
CodesAfterExchangeKept(authorizationCode) == codes

\* index.ts:594  this.codes.delete(authorizationCode)
CodesAfterExchange(authorizationCode) == MapDelete(codes, authorizationCode)

ExchangeAuthorizationCode(client, authorizationCode, codeVerifier) ==
    /\ IF CodeRejected(client, authorizationCode)
          \/ PkceRejected(client, authorizationCode, codeVerifier)
       THEN /\ ret' = [op |-> "exchangeAuthorizationCode", client |-> client.client_id,
                       code |-> authorizationCode, verifier |-> codeVerifier,
                       err |-> CodeError(client, authorizationCode)]
            /\ codes' = CodesAfterRejection(authorizationCode)
            /\ UNCHANGED <<tokens, grants, returned, ops>>
       ELSE /\ ops < MaxOps
            /\ ops' = ops + 1
            /\ LET codeData == codes[authorizationCode]
                   accessToken == RandomUUID("access", Cardinality(DOMAIN grants))
                   refreshToken == RandomUUID("refresh", Cardinality(DOMAIN grants))
               IN /\ tokens' = MapSet(tokens, accessToken, TokenInfo(client, codeData))
                  /\ codes' = CodesAfterExchange(authorizationCode)
                  /\ ret' = [op |-> "exchangeAuthorizationCode", client |-> client.client_id,
                             code |-> authorizationCode, verifier |-> codeVerifier,
                             err |-> "",
                             val |-> OAuthTokens(accessToken, refreshToken, codeData)]
                  /\ grants' = MapSet(grants, accessToken, authorizationCode)
                  /\ returned' = MapSet(returned, refreshToken,
                                        [client_id |-> client.client_id,
                                         scopes |-> ArrayOrElse(codeData.params.scopes, <<>>)])
    /\ UNCHANGED <<clients, now, minted, assigned, mcpVars>>

----------------------------------------------------------------------------
(* challengeForAuthorizationCode (index.ts:549-555) *)

\* Variant: reading the challenge consumes the code.
CodesAfterChallengeConsumed(authorizationCode) == MapDelete(codes, authorizationCode)

\* index.ts:549-555  the method writes to no store: this.codes is as before
CodesAfterChallenge(authorizationCode) == codes

ChallengeForAuthorizationCode(client, authorizationCode) ==
    /\ IF CodeRejected(client, authorizationCode)
       THEN /\ ret' = [op |-> "challengeForAuthorizationCode",
                       client |-> client.client_id, code |-> authorizationCode,
                       err |-> CodeError(client, authorizationCode)]
            /\ codes' = codes
       ELSE /\ ret' = [op |-> "challengeForAuthorizationCode",
                       client |-> client.client_id, code |-> authorizationCode,
                       err |-> "",
                       val |-> OrElse(codes[authorizationCode].codeChallenge, "")]
            /\ codes' = CodesAfterChallenge(authorizationCode)
    /\ UNCHANGED <<clients, tokens, now, ops, minted, grants, assigned, returned, mcpVars>>

----------------------------------------------------------------------------
(* exchangeRefreshToken (index.ts:605-613) *)

\* Variant: a refresh token that was handed out raises no error.
RefreshErrorUnknownOnly(client, refreshToken, scopes) ==
    IF refreshToken \in DOMAIN returned THEN ""
    ELSE "Refresh token exchange not implemented"

\* index.ts:612  throw new Error('Refresh token exchange not implemented')
RefreshError(client, refreshToken, scopes) == "Refresh token exchange not implemented"

\* index.ts:611-612  the method throws whatever its arguments are
ExchangeRefreshToken(client, refreshToken, scopes) ==
    /\ ret' = [op |-> "exchangeRefreshToken", client |-> client.client_id,
               token |-> refreshToken, scopes |-> scopes,
               err |-> RefreshError(client, refreshToken, scopes)]
    /\ UNCHANGED <<clients, codes, tokens, now, ops, minted, grants, assigned, returned, mcpVars>>

----------------------------------------------------------------------------
(* verifyAccessToken (index.ts:615-632) *)

\* Variant: only the presence of the record is tested, not its expiry.
TokenRejectedUnknownOnly(token) == ~IsDefined(MapGet(tokens, token))

\* index.ts:617  !tokenInfo || tokenInfo.expiresAt < Date.now()
TokenRejected(token) ==
    LET tokenInfo == MapGet(tokens, token)
    IN \/ ~IsDefined(tokenInfo)
       \/ tokenInfo[1].expiresAt < now

\* Variant: the expiry is returned in milliseconds, as it is stored.
AuthInfoMillis(token) ==
    [token |-> token,
     clientId |-> tokens[token].clientId,
     scopes |-> tokens[token].scopes,
     expiresAt |-> tokens[token].expiresAt,
     extra |-> [userId |-> tokens[token].userId,
                morphikUri |-> tokens[token].morphikUri]]

\* index.ts:621-631  the AuthInfo returned
AuthInfo(token) ==
    [token |-> token,
     clientId |-> tokens[token].clientId,
     scopes |-> tokens[token].scopes,
     expiresAt |-> FloorSeconds(tokens[token].expiresAt),
     extra |-> [userId |-> tokens[token].userId,
                morphikUri |-> tokens[token].morphikUri]]

\* Variant: verification removes the record of an expired token.
TokensAfterVerifyPruned(token) ==
    IF token \in DOMAIN tokens /\ tokens[token].expiresAt < now
    THEN MapDelete(tokens, token) ELSE tokens

\* index.ts:615-632  the method only reads this.tokens
TokensAfterVerify(token) == tokens

VerifyAccessToken(token) ==
    /\ tokens' = TokensAfterVerify(token)
    /\ ret' = IF TokenRejected(token)
              THEN [op |-> "verifyAccessToken", token |-> token,
                    err |-> "Invalid or expired token"]
              ELSE [op |-> "verifyAccessToken", token |-> token,
                    err |-> "", val |-> AuthInfo(token)]
    /\ UNCHANGED <<clients, codes, now, ops, minted, grants, assigned, returned, mcpVars>>

----------------------------------------------------------------------------
(* makeMorphikRequest (index.ts:322-399): the principal of a downstream call *)

\* index.ts:336-357  the API base and the Authorization header the call uses
MorphikRequestPrincipal(authInfo) ==
    LET oauth == IsDefined(authInfo) /\ authInfo[1].extra.morphikUri # ""
        apiBase == IF oauth THEN authInfo[1].extra.morphikUri ELSE MORPHIK_API_BASE
        authToken == IF oauth THEN authInfo[1].token ELSE AUTH_TOKEN
    IN [apiBase |-> apiBase,
        authorization |-> IF authToken # "" THEN Some("Bearer " \o authToken)
                          ELSE Undefined]

----------------------------------------------------------------------------
(* POST /mcp (index.ts:911-960).  A request's Authorization header is absent *)
(* or a record [scheme, credentials] standing for "<scheme> <credentials>".  *)

\* Variant: the handlers are reached without looking at the header.
BearerPresentedNever(authHeader) == FALSE

\* index.ts:915  authHeader && authHeader.startsWith('Bearer ')
BearerPresented(authHeader) ==
    IsDefined(authHeader) /\ authHeader[1].scheme = "Bearer"

\* index.ts:917-920  requireBearerAuth({ verifier: oauthProvider }): the SDK
\* middleware passes the credentials to verifyAccessToken; when that throws it
\* answers the request itself and does not call next(), otherwise it sets
\* req.auth to the AuthInfo returned and calls next().
RequireBearerAuth(authHeader) ==
    IF TokenRejected(authHeader[1].credentials)
    THEN [next |-> FALSE, auth |-> Undefined]
    ELSE [next |-> TRUE, auth |-> Some(AuthInfo(authHeader[1].credentials))]

\* index.ts:913-925  the optional-auth middleware
AuthMiddleware(authHeader) ==
    IF BearerPresented(authHeader)
    THEN RequireBearerAuth(authHeader)
    ELSE [next |-> TRUE, auth |-> Undefined]

\* index.ts:863-866  createMcpServer returns the module's one server for
\* every request; index.ts:937 server.connect(transport) connects it to the
\* transport created for request r.
ServerAfterConnect(r) == Some(r)

\* index.ts:943  server.close() disconnects the server from whatever
\* transport it is connected to.
ServerAfterClose == Undefined

\* index.ts:911-937  a request arrives and passes the middleware; when next()
\* is called the handler runs up to its first await: it stores req.auth in
\* currentAuthInfo and starts connecting the transport.
McpPost(authHeader) ==
    /\ ops < MaxOps
    /\ ops' = ops + 1
    /\ LET m == AuthMiddleware(authHeader)
       IN /\ requests' = Append(requests,
                [auth |-> m.auth,
                 pc |-> IF m.next THEN "handling" ELSE "rejected",
                 used |-> <<>>])
          /\ currentAuthInfo' = IF m.next THEN m.auth ELSE currentAuthInfo
          /\ server' = IF m.next THEN ServerAfterConnect(Len(requests) + 1) ELSE server
    /\ ret' = [op |-> "mcpPost", authorization |-> authHeader]
    /\ UNCHANGED <<clients, codes, tokens, now, minted, grants, assigned, returned>>

\* index.ts:662-676, 710-726  a tool handler of request r, run by
\* transport.handleRequest, calls makeMorphikRequest with authInfo:
\* currentAuthInfo as it is at that moment.
ToolCall(r) ==
    /\ requests[r].pc = "handling"
    /\ requests[r].used = <<>>
    /\ requests' = [requests EXCEPT ![r].used = <<MorphikRequestPrincipal(currentAuthInfo)>>]
    /\ ret' = [op |-> "toolCall"]
    /\ UNCHANGED <<clients, codes, tokens, now, ops, minted, grants, assigned, returned,
                   currentAuthInfo, server>>

\* index.ts:938-945  handleRequest has returned: the close listener is set
HandleRequestDone(r) ==
    /\ requests[r].pc = "handling"
    /\ requests' = [requests EXCEPT ![r].pc = "listening"]
    /\ ret' = [op |-> "handleRequestDone"]
    /\ UNCHANGED <<clients, codes, tokens, now, ops, minted, grants, assigned, returned,
                   currentAuthInfo, server>>

\* index.ts:941-945  the request's close event: its transport and the server
\* are closed and currentAuthInfo = undefined
RequestClose(r) ==
    /\ requests[r].pc = "listening"
    /\ requests' = [requests EXCEPT ![r].pc = "closed"]
    /\ server' = ServerAfterClose
    /\ currentAuthInfo' = Undefined
    /\ ret' = [op |-> "requestClose", request |-> r]
    /\ UNCHANGED <<clients, codes, tokens, now, ops, minted, grants, assigned, returned>>

----------------------------------------------------------------------------
(* The wall clock *)

Tick(d) ==
    /\ ops < MaxOps
    /\ now' = now + d
    /\ ops' = ops + 1
    /\ ret' = [op |-> "tick"]
    /\ UNCHANGED <<clients, codes, tokens, minted, grants, assigned, returned, mcpVars>>

----------------------------------------------------------------------------

CodeVerifiers == {Undefined} \cup {Some(v) : v \in Verifiers}

\* Codes a caller may present: every code minted so far, and one never minted.
AuthorizationCodes == DOMAIN minted \cup {NeverIssued}

\* Tokens a caller may present: every access token issued so far, and one never issued.
AccessTokens == DOMAIN grants \cup {NeverIssued}

Next ==
    \/ \E m \in ClientMetadata : RegisterClient(m)
    \/ \E c \in RegisteredClients, p \in AuthorizationParams : Authorize(c, p)
    \/ \E c \in RegisteredClients, k \in AuthorizationCodes, v \in CodeVerifiers :
            ExchangeAuthorizationCode(c, k, v)
    \/ \E t \in AccessTokens : VerifyAccessToken(t)
    \/ \E d \in TickSteps : Tick(d)

Spec == Init /\ [][Next]_vars

\* Authorization headers a request may carry: none, a non-Bearer scheme, and
\* "Bearer <token>" for every token a caller may present.
AuthorizationHeaders ==
    {Undefined, Some([scheme |-> "Basic", credentials |-> "dXNlcjpwdw=="])}
    \cup {Some([scheme |-> "Bearer", credentials |-> t]) : t \in AccessTokens}

\* The server with its /mcp endpoint: tokens are obtained through the
\* authorization-code flow and presented on POST /mcp requests.
McpNext ==
    \/ \E m \in ClientMetadata : RegisterClient(m)
    \/ \E c \in RegisteredClients : Authorize(c, PlainParams)
    \/ \E c \in RegisteredClients, k \in DOMAIN codes :
            ExchangeAuthorizationCode(c, k, Undefined)
    \/ Tick(AccessTtlMs + 1)
    \/ \E h \in AuthorizationHeaders : McpPost(h)
    \/ \E r \in DOMAIN requests : ToolCall(r)
    \/ \E r \in DOMAIN requests : HandleRequestDone(r)
    \/ \E r \in DOMAIN requests : RequestClose(r)

McpSpec == Init /\ [][McpNext]_vars

\* Metadata a client may post to /register: with no usable client_id of its
\* own, or with a client_id the server has handed out already.
RegistrationRequests ==
    { [client_name |-> n, client_id |-> k] :
        n \in {"app"}, k \in DOMAIN assigned \cup {NeverIssued} }

\* An authorization request for two scopes, without PKCE.
ScopedParams ==
    [redirectUri |-> "https://app/cb", state |-> Undefined,
     scopes |-> Some(<<"morphik:read", "morphik:write">>), codeChallenge |-> Undefined,
     codeChallengeMethod |-> Undefined]

\* Refresh tokens a caller may present: every one returned so far, and one never returned.
RefreshTokens == DOMAIN returned \cup {NeverIssued}

\* Scopes a refresh request may ask for: none, a subset of the scopes of
\* ScopedParams, and a scope outside them.
RequestedScopes ==
    {Undefined, Some(<<"morphik:read">>), Some(<<"morphik:admin">>)}

\* Client identifiers a caller may look up: every one assigned so far, and one never assigned.
ClientIds == DOMAIN assigned \cup {NeverIssued}

\* The six operations of the client registry and the provider.
ProviderNext ==
    \/ \E m \in RegistrationRequests : RegisterClient(m)
    \/ \E k \in ClientIds : GetClientCall(k)
    \/ \E c \in RegisteredClients : Authorize(c, ScopedParams)
    \/ \E c \in RegisteredClients, k \in AuthorizationCodes :
            ExchangeAuthorizationCode(c, k, Undefined)
    \/ \E c \in RegisteredClients, r \in RefreshTokens, s \in RequestedScopes :
            ExchangeRefreshToken(c, r, s)
    \/ \E t \in AccessTokens : VerifyAccessToken(t)
    \/ Tick(AccessTtlMs + 1)

ProviderSpec == Init /\ [][ProviderNext]_vars

\* Authorization requests with each challenge method, and without a challenge.
ChallengeParams == {S256Params, PlainChallengeParams, PlainParams}

\* The authorization-code flow with PKCE: registration, authorization
\* requests of every challenge method, and redemptions with any verifier.
PkceNext ==
    \/ \E m \in ClientMetadata : RegisterClient(m)
    \/ \E c \in RegisteredClients, p \in ChallengeParams : Authorize(c, p)
    \/ \E c \in RegisteredClients, k \in AuthorizationCodes, v \in CodeVerifiers :
            ExchangeAuthorizationCode(c, k, v)

PkceSpec == Init /\ [][PkceNext]_vars

\* The token endpoint's use of the provider: the challenge of a code is read
\* and the code is redeemed, by any registered client and for any code.
RedeemNext ==
    \/ \E m \in ClientMetadata : RegisterClient(m)
    \/ \E c \in RegisteredClients, p \in AuthorizationParams : Authorize(c, p)
    \/ \E c \in RegisteredClients, k \in AuthorizationCodes :
            ChallengeForAuthorizationCode(c, k)
    \/ \E c \in RegisteredClients, k \in AuthorizationCodes :
            ExchangeAuthorizationCode(c, k, Some("verifier1"))

RedeemSpec == Init /\ [][RedeemNext]_vars

\* The life of access tokens: they are issued through the authorization-code
\* flow and verified at any time while the clock advances.
TokenNext ==
    \/ \E m \in ClientMetadata : RegisterClient(m)
    \/ \E c \in RegisteredClients : Authorize(c, PlainParams)
    \/ \E c \in RegisteredClients, k \in DOMAIN codes :
            ExchangeAuthorizationCode(c, k, Undefined)
    \/ \E t \in AccessTokens : VerifyAccessToken(t)
    \/ \E d \in TickSteps : Tick(d)

TokenSpec == Init /\ [][TokenNext]_vars

----------------------------------------------------------------------------
(* File-path validation (index.ts:99-181).  A string is a sequence of        *)
(* one-character strings, so that String.prototype.startsWith is computed   *)
(* character by character.  A path is a sequence of segments, each a        *)
(* string; it stands for the absolute path "/" seg1 "/" seg2 ...             *)

\* the longest requested path, in segments
MaxSegments == 3

\* Segment names: "a", "ab", "x", "l" and the parent reference "..".
SegA == <<"a">>

SegAB == <<"a", "b">>

SegX == <<"x">>

SegL == <<"l">>

SegUp == <<".", ".">>

Segments == {SegA, SegAB, SegX, SegL, SegUp}

\* Requested paths: absolute paths of at most MaxSegments segments.  They do
\* not begin with "~", so expandHome (index.ts:132-137) returns them as given.
RequestedPaths == UNION {[1..n -> Segments] : n \in 0..MaxSegments}

\* The string of a path: "/" for the root, "/a/ab" for <<"a", "ab">>.
RECURSIVE PathString(_)
PathString(path) ==
    IF Len(path) = 0 THEN <<"/">>
    ELSE IF Len(path) = 1 THEN <<"/">> \o path[1]
    ELSE PathString(SubSeq(path, 1, Len(path) - 1)) \o <<"/">> \o path[Len(path)]

\* String.prototype.startsWith
StartsWith(str, prefix) ==
    Len(prefix) <= Len(str) /\ SubSeq(str, 1, Len(prefix)) = prefix

\* path.resolve of an absolute path: ".." removes the segment before it
RECURSIVE PathResolve(_)
PathResolve(path) ==
    IF Len(path) = 0 THEN <<>>
    ELSE LET front == PathResolve(SubSeq(path, 1, Len(path) - 1))
             last == path[Len(path)]
         IN IF last = SegUp
            THEN (IF Len(front) = 0 THEN <<>> ELSE SubSeq(front, 1, Len(front) - 1))
            ELSE Append(front, last)

\* path.dirname of a resolved absolute path
PathDirname(path) ==
    IF Len(path) = 0 THEN <<>> ELSE SubSeq(path, 1, Len(path) - 1)

\* index.ts:101-126  allowedDirectories after start-up with --allowed-dir=/a
allowedDirectories == {PathString(<<SegA>>)}

\* The file system the server runs on.  Directories /, /a, /ab and /x; a
\* file named a in each of /a, /ab and /x; and three symbolic links in /a:
\* /a/l to the file /x/a, /a/x to the directory /x, /a/ab to the file /a/a.
Directories == {<<>>, <<SegA>>, <<SegAB>>, <<SegX>>}

Files == {<<SegA, SegA>>, <<SegAB, SegA>>, <<SegX, SegA>>}

Symlinks ==
    [link \in {<<SegA, SegL>>, <<SegA, SegX>>, <<SegA, SegAB>>} |->
        CASE link = <<SegA, SegL>> -> <<SegX, SegA>>
          [] link = <<SegA, SegX>> -> <<SegX>>
          [] link = <<SegA, SegAB>> -> <<SegA, SegA>>]

\* fs.realpath of a resolved absolute path: every symbolic link on the way is
\* followed; undefined when a component does not exist (ENOENT, ENOTDIR).
RECURSIVE Realpath(_)
Realpath(path) ==
    IF Len(path) = 0 THEN Some(<<>>)
    ELSE LET front == Realpath(SubSeq(path, 1, Len(path) - 1))
         IN IF ~IsDefined(front) \/ front[1] \notin Directories THEN Undefined
            ELSE LET entry == Append(front[1], path[Len(path)])
                 IN IF entry \in DOMAIN Symlinks THEN Some(Symlinks[entry])
                    ELSE IF entry \in Directories \cup Files THEN Some(entry)
                    ELSE Undefined

\* index.ts:153, 162, 173  allowedDirectories.some(dir => normalized.startsWith(dir))
IsAllowed(normalized) ==
    \E dir \in allowedDirectories : StartsWith(normalized, dir)

\* index.ts:168-180  the catch block: the parent directory is checked.  Its
\* inner catch turns every error of the inner try, the access-denied one
\* included, into "Parent directory does not exist".
ParentFallback(absolute) ==
    LET realParentPath == Realpath(PathDirname(absolute))
    IN IF IsDefined(realParentPath) /\ IsAllowed(PathString(realParentPath[1]))
       THEN [err |-> "", val |-> PathString(absolute)]
       ELSE [err |-> "Parent directory does not exist"]

\* index.ts:144-181  validatePath.  An error thrown in the first try block,
\* by fs.realpath or by the symlink check, is caught by its catch block.
ValidatedPath(requestedPath) ==
    LET absolute == PathResolve(requestedPath)
        realPath == Realpath(absolute)
    IN IF ~IsAllowed(PathString(absolute))
       THEN [err |-> "Access denied - path outside allowed directories"]
       ELSE IF IsDefined(realPath) /\ IsAllowed(PathString(realPath[1]))
       THEN [err |-> "", val |-> PathString(realPath[1])]
       ELSE ParentFallback(absolute)

\* A call of validatePath; it changes nothing.
ValidatePath(requestedPath) ==
    /\ ret' = [op |-> "validatePath", path |-> requestedPath,
               out |-> ValidatedPath(requestedPath)]
    /\ UNCHANGED <<clients, codes, tokens, now, ops, minted, grants, assigned, returned, mcpVars>>

FsNext == \E path \in RequestedPaths : ValidatePath(path)

FsSpec == Init /\ [][FsNext]_vars

----------------------------------------------------------------------------
(* The --uri argument (index.ts:34-79, index_http.ts:136-179).  Strings are  *)
(* sequences of one-character strings, as in the file-path validation.      *)

\* the longest token and the longest host of a morphik:// URI, in characters
MaxPartLen == 2

\* "morphik://"
MorphikScheme == <<"m", "o", "r", "p", "h", "i", "k", ":", "/", "/">>

\* "https://"
HttpsScheme == <<"h", "t", "t", "p", "s", ":", "/", "/">>

\* "http://localhost:8000", the default of morphikApiBase (index.ts:30)
LocalApiBase == 
    <<"h", "t", "t", "p", ":", "/", "/", "l", "o", "c", "a", "l", "h", "o", "s", "t", ":", "8", "0", "0", "0">>

\* The owner_id of the URIs: "o"
OwnerId == <<"o">>

\* Tokens of the URIs: the strings of 1..MaxPartLen characters over t : @
UriTokens == UNION {[1..n -> {"t", ":", "@"}] : n \in 1..MaxPartLen}

\* Hosts of the URIs: the strings of 1..MaxPartLen characters over h : @
UriHosts == UNION {[1..n -> {"h", ":", "@"}] : n \in 1..MaxPartLen}

\* The value of --uri for owner_id, token and host: morphik://<owner_id>:<token>@<host>
MorphikUri(owner, token, host) ==
    MorphikScheme \o owner \o <<":">> \o token \o <<"@">> \o host

\* String.prototype.split(sep) for a one-character separator
RECURSIVE Split(_, _)
Split(str, sep) ==
    IF \A i \in DOMAIN str : str[i] # sep THEN <<str>>
    ELSE LET i == CHOOSE j \in DOMAIN str :
                     str[j] = sep /\ \A k \in 1..(j - 1) : str[k] # sep
         IN <<SubSeq(str, 1, i - 1)>> \o Split(SubSeq(str, i + 1, Len(str)), sep)

\* Array destructuring: the element at position i, undefined past the end
ElementAt(parts, i) == IF i <= Len(parts) THEN Some(parts[i]) ELSE Undefined

\* JavaScript truthiness of an optional string
Truthy(o) == IsDefined(o) /\ o[1] # <<>>

\* index.ts:47-64  the morphik:// branch.  replace('morphik://', '') removes
\* the scheme, which startsWith has found at the front of the value.
ParseMorphikUri(uriValue) ==
    LET uriWithoutProtocol == SubSeq(uriValue, Len(MorphikScheme) + 1, Len(uriValue))
        parts == Split(uriWithoutProtocol, "@")
        authPart == ElementAt(parts, 1)
        hostPart == ElementAt(parts, 2)
        token == IF Truthy(authPart) THEN ElementAt(Split(authPart[1], ":"), 2)
                 ELSE Undefined
    IN IF Truthy(authPart) /\ Truthy(hostPart) /\ Truthy(token)
       THEN [morphikApiBase |-> HttpsScheme \o hostPart[1], authToken |-> token[1]]
       ELSE [morphikApiBase |-> LocalApiBase, authToken |-> <<>>]

\* index.ts:30-75  morphikApiBase and authToken after the argument --uri=<uriValue>
ParseUriArgument(uriValue) ==
    IF uriValue = <<>>
    THEN [morphikApiBase |-> LocalApiBase, authToken |-> <<>>]
    ELSE IF StartsWith(uriValue, MorphikScheme)
    THEN ParseMorphikUri(uriValue)
    ELSE [morphikApiBase |-> uriValue, authToken |-> <<>>]

\* The server starts with --uri=morphik://<owner_id>:<token>@<host>.
ParseArgs(owner, token, host) ==
    /\ ret' = [op |-> "parseArgs", owner |-> owner, token |-> token, host |-> host,
               out |-> ParseUriArgument(MorphikUri(owner, token, host))]
    /\ UNCHANGED <<clients, codes, tokens, now, ops, minted, grants, assigned, returned, mcpVars>>

UriNext == \E token \in UriTokens, host \in UriHosts : ParseArgs(OwnerId, token, host)

UriSpec == Init /\ [][UriNext]_vars

----------------------------------------------------------------------------
(* Properties.  A step is identified by the operation `ret` records after   *)
(* it: every action sets ret.op, so a non-stuttering step whose ret'.op is  *)
(* "exchangeAuthorizationCode" is a call of that method, with ret' holding  *)
(* its arguments and outcome and the unprimed variables the state before.   *)

\* index.ts:564  the only error exchangeAuthorizationCode raises; the
\* specification's invalid_grant failure of a redemption.
InvalidAuthorizationCode == "Invalid authorization code"

IsExchange(r) == r.op = "exchangeAuthorizationCode"

\* The codes for which a redemption has succeeded.
Redeemed == {grants[t] : t \in DOMAIN grants}

\* The call recorded in r is made by the client that code r.code was minted for.
ByOwner(r) == r.code \in DOMAIN minted /\ minted[r.code].client_id = r.client

\* C1: at-most-once redemption.  Calls of exchangeAuthorizationCode run one
\* after another in any order.  A call for a minted code by its owning client
\* succeeds exactly when no earlier call for that code has succeeded and
\* otherwise fails with the invalid-code error, so of N >= 1 such calls one
\* succeeds and N-1 fail; and no two tokens in the store stem from one code.
C1_AtMostOnceRedemption ==
    [][ (IsExchange(ret') /\ ByOwner(ret'))
        => /\ (ret'.err = "") <=> (ret'.code \notin Redeemed)
           /\ ret'.err # "" => ret'.err = InvalidAuthorizationCode
           /\ \A t1, t2 \in DOMAIN tokens' :
                 grants'[t1] = grants'[t2] => t1 = t2 ]_vars

\* C1 witness: the owning client's second call for a code it has redeemed has
\* just failed, while the token of the first call is in the store.
C1_Witness ==
    /\ IsExchange(ret) /\ ByOwner(ret)
    /\ ret.err = InvalidAuthorizationCode
    /\ \E t \in DOMAIN tokens : grants[t] = ret.code

\* C2: single use.  Once a redemption of code c has succeeded, every later
\* exchangeAuthorizationCode call with c, by any client and with any verifier,
\* fails with the invalid-code error and issues nothing.
C2_SingleUse ==
    [][ (IsExchange(ret') /\ ret'.code \in Redeemed)
        => /\ ret'.err = InvalidAuthorizationCode
           /\ tokens' = tokens
           /\ codes' = codes ]_vars

\* C2 witness: a redeemed code was presented again, after a further authorize
\* call had minted another code, and the call failed.
C2_Witness ==
    /\ IsExchange(ret) /\ ret.code \in Redeemed
    /\ ret.err = InvalidAuthorizationCode
    /\ \E k \in DOMAIN codes : k # ret.code

\* C3: client binding.  A call that presents a pending code with a client
\* whose client_id differs from the one recorded for the code fails with the
\* invalid-code error and issues no token.
C3_ClientBinding ==
    [][ (/\ IsExchange(ret')
         /\ ret'.code \in DOMAIN codes
         /\ codes[ret'.code].client.client_id # ret'.client)
        => /\ ret'.err = InvalidAuthorizationCode
           /\ tokens' = tokens ]_vars

\* C3 witness: a second registered client presented another client's pending
\* code and was refused.
C3_Witness ==
    /\ IsExchange(ret)
    /\ ret.code \in DOMAIN codes
    /\ codes[ret.code].client.client_id # ret.client
    /\ ret.err = InvalidAuthorizationCode

\* The call about to be recorded presents a pending code with its owning
\* client, and the code's authorization recorded a code_challenge.
OwnerCallWithChallenge ==
    /\ IsExchange(ret')
    /\ ret'.code \in DOMAIN codes
    /\ codes[ret'.code].client.client_id = ret'.client
    /\ IsDefined(codes[ret'.code].codeChallenge)

\* C4: PKCE correctness.  For a pending code with a recorded S256 challenge, a
\* call by the owning client that supplies a verifier succeeds if and only if
\* BASE64URL(SHA256(code_verifier)) equals the stored challenge; on a mismatch
\* it fails and issues no token.
C4_PkceCorrectness ==
    [][ (OwnerCallWithChallenge /\ IsDefined(ret'.verifier))
        => /\ (ret'.err = "")
                <=> (S256(ret'.verifier[1]) = codes[ret'.code].codeChallenge[1])
           /\ ret'.err # "" => tokens' = tokens ]_vars

\* C5: the verifier is mandatory.  For a pending code with a recorded
\* challenge, a call by the owning client without a code_verifier fails and
\* issues no token.
C5_VerifierRequired ==
    [][ (OwnerCallWithChallenge /\ ~IsDefined(ret'.verifier))
        => /\ ret'.err # ""
           /\ tokens' = tokens ]_vars

\* The longest lifetime the specification allows a pending authorization
\* (60 to 600 seconds), in milliseconds.
CodeTtlMs == 600 * 1000

\* C6: code expiry.  A call for a minted code made when its lifetime has
\* elapsed (now >= issued_at + ttl) fails, even when the code was never
\* redeemed and the client is the owner.
C6_CodeExpiry ==
    [][ (/\ IsExchange(ret')
         /\ ret'.code \in DOMAIN minted
         /\ now >= minted[ret'.code].at + CodeTtlMs)
        => /\ ret'.err # ""
           /\ tokens' = tokens ]_vars

\* C7: token validity.  verifyAccessToken(t) returns a principal if and only if
\* t is a key of the token store and now < expires_at of its record.
C7_TokenValidity ==
    ret.op = "verifyAccessToken"
    => ((ret.err = "")
          <=> (ret.token \in DOMAIN tokens /\ now < tokens[ret.token].expiresAt))

\* C10: authorize issues no token.  An authorize call leaves the token store
\* and the client registry unchanged, keeps every pending authorization, and
\* adds exactly one: the one stored under the code it minted.
C10_AuthorizeFrame ==
    [][ ret'.op = "authorize"
        => /\ tokens' = tokens
           /\ clients' = clients
           /\ ret'.val.mcp_code \notin DOMAIN codes
           /\ DOMAIN codes' = DOMAIN codes \cup {ret'.val.mcp_code}
           /\ \A k \in DOMAIN codes : codes'[k] = codes[k] ]_vars

\* C10 witness: authorize has just run in a state where a token is in the
\* store and another authorization is pending.
C10_Witness ==
    /\ ret.op = "authorize"
    /\ DOMAIN tokens # {}
    /\ Cardinality(DOMAIN codes) >= 2

\* The header recorded in r carries the scheme Bearer.
HasBearerScheme(r) ==
    IsDefined(r.authorization) /\ r.authorization[1].scheme = "Bearer"

\* The request that arrived last.
LastRequest == requests[Len(requests)]

C9_PrincipalIsolation ==
    \A r \in DOMAIN requests :
        \A i \in DOMAIN requests[r].used :
            requests[r].used[i] = MorphikRequestPrincipal(requests[r].auth)

\* Every access token and refresh token value a redemption has returned.
TokenValuesReturned == DOMAIN grants \cup DOMAIN returned

\* C11: identifier uniqueness.  With a generator that returns fresh values,
\* authorize never mints a code that was minted before (redeemed or not), a
\* successful exchangeAuthorizationCode returns an access token and a refresh
\* token that no earlier call returned and that differ from each other, and
\* registerClient never assigns a client_id it assigned before.
C11_IdentifierUniqueness ==
    [][ /\ ret'.op = "authorize" => ret'.val.mcp_code \notin DOMAIN minted
        /\ (IsExchange(ret') /\ ret'.err = "")
           => /\ ret'.val.access_token \notin TokenValuesReturned
              /\ ret'.val.refresh_token \notin TokenValuesReturned
              /\ ret'.val.access_token # ret'.val.refresh_token
        /\ ret'.op = "registerClient" => ret'.val.client_id \notin DOMAIN assigned ]_vars

\* C11 witness: a second client has registered and authorize has minted a code
\* after an earlier code was redeemed.
C11_Witness ==
    /\ ret.op = "authorize"
    /\ Redeemed # {}
    /\ ret.val.mcp_code \notin Redeemed
    /\ Cardinality(DOMAIN assigned) >= 2

\* C12: no half-written redemption.  exchangeAuthorizationCode runs from its
\* lookup to its return without an await, so the states another request (or a
\* cancellation) can observe are the states between calls.  In each of them,
\* for every code c that was minted: a token issued from c is in the token
\* store if and only if c is no longer in the pending-authorization store.
C12_NoHalfWrittenRedemption ==
    \A c \in DOMAIN minted :
        (\E t \in DOMAIN tokens : grants[t] = c) <=> (c \notin DOMAIN codes)

\* C12 witness: a redemption has just succeeded while another code is pending.
C12_Witness ==
    /\ IsExchange(ret) /\ ret.err = ""
    /\ ret.code \notin DOMAIN codes
    /\ \E t \in DOMAIN tokens : grants[t] = ret.code
    /\ DOMAIN codes # {}

\* C13: client registry round trip.  registerClient always succeeds; the
\* record it returns has a client_id the server had not assigned before, which
\* replaces the client_id given in the metadata, has client_id_issued_at set
\* to the current time in seconds, and keeps the other metadata fields; the
\* record is stored under that client_id.  getClient of a client_id that
\* registerClient returned yields exactly the record returned with it, and
\* getClient of any other identifier yields undefined.
C13_RegistryRoundTrip ==
    [][ /\ ret'.op = "registerClient"
           => /\ ret'.err = ""
              /\ ret'.val.client_id \notin DOMAIN assigned
              /\ ret'.val.client_id # ret'.metadata.client_id
              /\ ret'.val.client_id_issued_at = now \div 1000
              /\ ret'.val.client_name = ret'.metadata.client_name
              /\ MapGet(clients', ret'.val.client_id) = Some(ret'.val)
        /\ ret'.op = "getClient"
           => ret'.val = IF ret'.clientId \in DOMAIN assigned
                         THEN Some(assigned[ret'.clientId])
                         ELSE Undefined ]_vars

\* C13 witness: getClient has just returned the record of a client that was
\* registered before another registration took place.
C13_Witness ==
    /\ ret.op = "getClient"
    /\ IsDefined(ret.val)
    /\ \E k \in DOMAIN assigned :
          /\ k # ret.clientId
          /\ assigned[k].client_id_issued_at >= ret.val[1].client_id_issued_at

\* C14: registered clients are immutable.  No step of registerClient,
\* getClient, authorize, exchangeAuthorizationCode, exchangeRefreshToken or
\* verifyAccessToken changes or removes a record the registry holds.
C14_ClientsImmutable ==
    [][ \A k \in DOMAIN clients :
            k \in DOMAIN clients' /\ clients'[k] = clients[k] ]_vars

\* C14 witness: a client has just been registered while an earlier client's
\* record, a pending authorization or an issued token were already stored.
C14_Witness ==
    /\ ret.op = "registerClient"
    /\ Cardinality(DOMAIN clients) >= 2
    /\ DOMAIN tokens # {}

\* C15: successful exchange result.  A successful exchangeAuthorizationCode at
\* time now returns token_type Bearer, expires_in 3600 and the scopes requested
\* in the authorize call that minted the code (joined by spaces, absent when
\* none were requested), and stores under the returned access token a record
\* whose expiry is now plus expires_in seconds.
C15_ExchangeResult ==
    [][ (IsExchange(ret') /\ ret'.err = "")
        => LET requested == minted[ret'.code].params.scopes
               stored == tokens'[ret'.val.access_token]
           IN /\ ret'.val.token_type = "Bearer"
              /\ ret'.val.expires_in = 3600
              /\ ret'.val.scope = IF IsDefined(requested)
                                  THEN Some(Join(requested[1])) ELSE Undefined
              /\ ret'.val.access_token \in DOMAIN tokens'
              /\ stored.expiresAt = now + ret'.val.expires_in * 1000
              /\ stored.scopes = ArrayOrElse(requested, <<>>) ]_vars

\* C15 witness: a code minted with two requested scopes has been redeemed
\* after the clock had advanced.
C15_Witness ==
    /\ IsExchange(ret) /\ ret.err = ""
    /\ ret.val.scope = Some("morphik:read morphik:write")
    /\ now > StartTime
    /\ tokens[ret.val.access_token].expiresAt = now + 3600000

\* The call recorded in ret is verifyAccessToken(t) for an access token t that
\* a successful exchangeAuthorizationCode returned, made while t is valid.
VerifyOfValidGrant ==
    /\ ret.op = "verifyAccessToken"
    /\ ret.token \in DOMAIN grants
    /\ now < tokens[ret.token].expiresAt

\* The principal in ret names the client that redeemed the code, the scopes
\* recorded for the code at authorize time (none recorded: the empty list),
\* and the subject and tenant endpoint stored with the token.
PrincipalOfGrant ==
    LET c == grants[ret.token]
    IN /\ ret.val.token = ret.token
       /\ ret.val.clientId = minted[c].client_id
       /\ ret.val.scopes = ArrayOrElse(minted[c].params.scopes, <<>>)
       /\ ret.val.extra.userId = tokens[ret.token].userId
       /\ ret.val.extra.morphikUri = tokens[ret.token].morphikUri

\* C16 as stated: verifyAccessToken(t), for a token t of a successful
\* exchange and while t is valid, returns the principal of the grant with an
\* expiresAt that is the stored expiry: the returned value, in seconds, and
\* the stored value, in milliseconds, are the same instant.
C16_VerifiedPrincipal ==
    VerifyOfValidGrant
    => /\ ret.err = ""
       /\ PrincipalOfGrant
       /\ ret.val.expiresAt * 1000 = tokens[ret.token].expiresAt

\* C16 amended: as above, but expiresAt is the stored expiry in whole seconds,
\* rounded down (the stored milliseconds divided by 1000, fraction dropped).
C16_VerifiedPrincipalSeconds ==
    VerifyOfValidGrant
    => /\ ret.err = ""
       /\ PrincipalOfGrant
       /\ ret.val.expiresAt = tokens[ret.token].expiresAt \div 1000

\* C16 witness: a token granted for two scopes after the clock had advanced
\* has just been verified while valid.
C16_Witness ==
    /\ VerifyOfValidGrant
    /\ ret.err = ""
    /\ Len(ret.val.scopes) = 2
    /\ now > StartTime

\* The elements of a sequence.
Range(seq) == {seq[i] : i \in DOMAIN seq}

\* C17: refresh grant.  exchangeRefreshToken(client, r, scopes) with a refresh
\* token r that a successful exchangeAuthorizationCode returned to the same
\* client, and with requested scopes inside the original grant, issues a new
\* access token that verifyAccessToken accepts; with an unknown or another
\* client's refresh token it fails (invalid_grant), and with requested scopes
\* outside the original grant it fails (invalid_scope).  The provider raises
\* plain errors without an OAuth error code, so a failure is any error.
C17_RefreshGrant ==
    [][ ret'.op = "exchangeRefreshToken"
        => LET r == ret'.token
               own == r \in DOMAIN returned /\ returned[r].client_id = ret'.client
               inside == \/ ~IsDefined(ret'.scopes)
                         \/ Range(ret'.scopes[1]) \subseteq Range(returned[r].scopes)
           IN IF ~own \/ ~inside THEN ret'.err # "" /\ tokens' = tokens
              ELSE /\ ret'.err = ""
                   /\ ret'.val.access_token \in DOMAIN tokens' \ DOMAIN tokens
                   /\ now <= tokens'[ret'.val.access_token].expiresAt ]_vars

\* The token-store entry under key k records refresh token r: r is the key,
\* or the record has a refresh-token field holding r.
RecordsRefreshToken(k, r) ==
    \/ k = r
    \/ \E f \in {"refreshToken", "refresh_token"} :
          f \in DOMAIN tokens[k] /\ tokens[k][f] = r

\* C18: refresh tokens are recorded.  For every refresh token r that a
\* successful exchangeAuthorizationCode has returned, the token store holds a
\* record that associates r with the client_id it was issued to and the
\* scopes granted, so the server can resolve r later.
C18_RefreshTokenRecorded ==
    \A r \in DOMAIN returned :
        \E k \in DOMAIN tokens :
            /\ RecordsRefreshToken(k, r)
            /\ tokens[k].clientId = returned[r].client_id
            /\ tokens[k].scopes = returned[r].scopes

\* C19: authorize redirect parameters.  The redirect produced by authorize
\* carries client_id, redirect_uri, state, scope, code_challenge and
\* code_challenge_method equal to the values of the authorization request (an
\* absent value is carried as the empty string), for every challenge method
\* and for a request without a challenge, plus the newly minted code, under
\* which the pending authorization of this request is stored.
C19_RedirectParameters ==
    [][ ret'.op = "authorize"
        => LET p == ret'.params
               url == ret'.val
           IN /\ url.client_id = ret'.client
              /\ url.redirect_uri = p.redirectUri
              /\ url.state = OrElse(p.state, "")
              /\ url.scope = IF IsDefined(p.scopes) THEN Join(p.scopes[1]) ELSE ""
              /\ url.code_challenge = OrElse(p.codeChallenge, "")
              /\ url.code_challenge_method = OrElse(p.codeChallengeMethod, "")
              /\ url.mcp_code \in DOMAIN codes' \ DOMAIN codes
              /\ codes'[url.mcp_code].params = p
              /\ codes'[url.mcp_code].client.client_id = ret'.client ]_vars

\* C20: plain PKCE method.  For a pending code whose authorization request
\* had code_challenge_method plain, a call of exchangeAuthorizationCode by the
\* owning client succeeds only when a code_verifier is supplied and is equal
\* to the stored code_challenge.
C20_PlainChallenge ==
    [][ (/\ IsExchange(ret')
         /\ ret'.code \in DOMAIN codes
         /\ codes[ret'.code].client.client_id = ret'.client
         /\ codes[ret'.code].params.codeChallengeMethod = Some("plain")
         /\ ret'.err = "")
        => /\ IsDefined(ret'.verifier)
           /\ ret'.verifier[1] = codes[ret'.code].codeChallenge[1] ]_vars

\* The call recorded in r is a failed exchangeAuthorizationCode or
\* challengeForAuthorizationCode.
IsRefusal(r) ==
    /\ r.op \in {"exchangeAuthorizationCode", "challengeForAuthorizationCode"}
    /\ r.err # ""

\* C21: no state leak through redemption errors.  The outcome of a failed
\* exchangeAuthorizationCode or challengeForAuthorizationCode is the same
\* error whether the code was never minted, was already redeemed, or is
\* pending for another client: the recorded outcome consists of the call's
\* own arguments and one fixed message, so it does not depend on the stores.
C21_NoStateLeak ==
    [][ IsRefusal(ret')
        => /\ ret'.err = InvalidAuthorizationCode
           /\ DOMAIN ret' \subseteq {"op", "client", "code", "verifier", "err"} ]_vars

\* C21 witness: a client was refused a code that is pending for another
\* client, in a state where a minted code has been redeemed as well.
C21_Witness ==
    /\ IsRefusal(ret)
    /\ ret.code \in DOMAIN codes
    /\ codes[ret.code].client.client_id # ret.client
    /\ Redeemed # {}

\* Access token t was issued and its stored expiry lies before the current
\* time: the state in which verifyAccessToken(t) fails because t expired.
Expired(t) == t \in DOMAIN tokens /\ tokens[t].expiresAt < now

\* C22: access-token expiry is terminal.  The clock never goes back.  From a
\* state in which an issued token t is expired, no step of any operation
\* leads to a state in which t is in the store and unexpired (no operation
\* extends expires_at), and a verifyAccessToken(t) taken from it fails; so
\* once verifyAccessToken(t) has failed for expiry, every later call fails.
C22_ExpiryTerminal ==
    [][ /\ now' >= now
        /\ \A t \in DOMAIN grants :
              Expired(t)
              => /\ t \notin DOMAIN tokens' \/ tokens'[t].expiresAt < now'
                 /\ (ret'.op = "verifyAccessToken" /\ ret'.token = t)
                    => ret'.err = "Invalid or expired token" ]_vars

\* C22 witness: verifyAccessToken has just failed for a token that had
\* already been expired for more than a further token lifetime.
C22_Witness ==
    /\ ret.op = "verifyAccessToken"
    /\ ret.err # ""
    /\ ret.token \in DOMAIN tokens
    /\ now > tokens[ret.token].expiresAt + AccessTtlMs

\* C26: verifyAccessToken is read-only.  A call of verifyAccessToken, whether
\* it returns a principal or fails for an unknown or an expired token, leaves
\* the token store, the pending-authorization store and the client registry
\* as they were; in particular the record of an expired token stays.
C26_VerifyReadOnly ==
    [][ ret'.op = "verifyAccessToken"
        => /\ tokens' = tokens
           /\ codes' = codes
           /\ clients' = clients ]_vars

\* C26 witness: verifyAccessToken has just refused an expired token whose
\* record is still in the store, next to a pending authorization.
C26_Witness ==
    /\ ret.op = "verifyAccessToken"
    /\ ret.err # ""
    /\ Expired(ret.token)
    /\ DOMAIN codes # {}

\* C27: the refresh exchange always fails.  exchangeRefreshToken raises an
\* error for every client, refresh token and scope argument and leaves the
\* token store, the pending-authorization store and the client registry
\* unchanged; every token in the store stems from an authorization code.
C27_RefreshAlwaysFails ==
    [][ /\ ret'.op = "exchangeRefreshToken"
           => /\ ret'.err # ""
              /\ tokens' = tokens
              /\ codes' = codes
              /\ clients' = clients
        /\ \A t \in DOMAIN tokens' : t \in DOMAIN grants' /\ grants'[t] \in DOMAIN minted' ]_vars

\* C27 witness: a client has just presented the refresh token it was given,
\* asking for a subset of the granted scopes, and the call failed.
C27_Witness ==
    /\ ret.op = "exchangeRefreshToken"
    /\ ret.token \in DOMAIN returned
    /\ returned[ret.token].client_id = ret.client
    /\ ret.scopes = Some(<<"morphik:read">>)
    /\ ret.err # ""

\* C28: a failed redemption has no effect.  An exchangeAuthorizationCode call
\* that fails, because the code is unknown or belongs to another client,
\* leaves the pending-authorization store and the token store unchanged; and
\* a call by the owning client for a code that is pending succeeds, whatever
\* refused attempts were made on the code before.
C28_FailedRedemptionFrame ==
    [][ IsExchange(ret')
        => /\ ret'.err # "" => codes' = codes /\ tokens' = tokens
           /\ (/\ ret'.code \in DOMAIN codes
               /\ codes[ret'.code].client.client_id = ret'.client)
              => /\ ret'.err = ""
                 /\ ret'.code \notin Redeemed
                 /\ ret'.code \in Redeemed' ]_vars

\* C28 witness: a foreign client's attempt on a pending code has just been
\* refused after another code had been redeemed; the attacked code is still
\* pending and was never redeemed.
C28_Witness ==
    /\ IsExchange(ret) /\ ret.err # ""
    /\ ret.code \in DOMAIN codes
    /\ minted[ret.code].client_id # ret.client
    /\ ret.code \notin Redeemed
    /\ DOMAIN tokens # {}

\* C29: challengeForAuthorizationCode(client, c) returns the code_challenge
\* recorded for c at authorize time, or the empty string when none was
\* recorded, when c is pending for that client; it fails when c is unknown,
\* already redeemed or pending for another client; and it changes no store,
\* so the code stays pending for the exchange that follows.
C29_ChallengeLookup ==
    [][ ret'.op = "challengeForAuthorizationCode"
        => /\ codes' = codes /\ tokens' = tokens /\ clients' = clients
           /\ IF /\ ret'.code \in DOMAIN codes
                 /\ minted[ret'.code].client_id = ret'.client
              THEN /\ ret'.err = ""
                   /\ ret'.val = OrElse(minted[ret'.code].params.codeChallenge, "")
              ELSE ret'.err # "" ]_vars

\* C29 witness: the owning client has just read the S256 challenge of its
\* pending code, and the code is still pending.
C29_Witness ==
    /\ ret.op = "challengeForAuthorizationCode"
    /\ ret.err = ""
    /\ ret.val = S256("verifier1")
    /\ ret.code \in DOMAIN codes

\* Request r is in flight: its handler has connected the server to r's
\* transport and transport.handleRequest has not returned yet.
InFlight(r) == requests[r].pc = "handling"

\* C30: stateless per-request servers.  The close of one request never closes
\* or disconnects the server that is serving another request still in
\* flight: a server connected to the transport of an in-flight request r is
\* still connected to it after the close of any other request.
C30_CloseIsolation ==
    [][ ret'.op = "requestClose"
        => \A r \in DOMAIN requests :
              (r # ret'.request /\ InFlight(r) /\ server = Some(r))
              => server' = Some(r) ]_vars

\* Path inner is the directory dir or a descendant of it, segment by segment.
Within(inner, dir) ==
    Len(dir) <= Len(inner) /\ SubSeq(inner, 1, Len(dir)) = dir

\* The allowed directories as paths.
AllowedPaths == {<<SegA>>}

\* C23: filesystem sandbox containment.  validatePath returns a path only if
\* the resolved absolute path is one of the allowed directories or a
\* descendant of one; a path that only shares a string prefix with an allowed
\* directory is rejected.
C23_SandboxContainment ==
    (ret.op = "validatePath" /\ ret.out.err = "")
    => \E dir \in AllowedPaths : Within(PathResolve(ret.path), dir)

\* C24: symlink containment.  validatePath fails for every existing path that
\* lies inside an allowed directory while its real, symlink-resolved path lies
\* outside all allowed directories.
C24_SymlinkContainment ==
    (/\ ret.op = "validatePath"
     /\ \E dir \in AllowedPaths : Within(PathResolve(ret.path), dir)
     /\ IsDefined(Realpath(PathResolve(ret.path)))
     /\ \A dir \in AllowedPaths : ~Within(Realpath(PathResolve(ret.path))[1], dir))
    => ret.out.err # ""

\* C25: morphik:// URI parsing.  For every argument
\* --uri=morphik://<owner_id>:<token>@<host> the configuration has the API
\* base https://<host> and a bearer token equal to <token>, for every token
\* and host, also those that contain ":" or "@"; so the base is never a plain
\* http one and never the unauthenticated localhost default.
C25_MorphikUriParsing ==
    ret.op = "parseArgs"
    => /\ ret.out.morphikApiBase = HttpsScheme \o ret.host
       /\ ret.out.authToken = ret.token

====
